---------------------------- MODULE Spec2Model ----------------------------
(***************************************************************************)
(* Model of ildolomiti-telegram (src/main.py): a poller that reads an RSS  *)
(* feed, publishes new articles to a Telegram channel, edits the message   *)
(* of an article whose title/link changed, and prunes its article table.   *)
(*                                                                         *)
(* Strings are sequences of one-character strings.  An optional value is   *)
(* a sequence of length 0 (None) or 1.                                     *)
(***************************************************************************)
EXTENDS Integers, Sequences, FiniteSets, TLC

VARIABLES
    store,    \* the Article table: rows in id order
    images,   \* files present in the images/ directory
    main,     \* position of the main thread: "clean", "check", "sched", "dead"
    chk,      \* position of the check job: "idle", "loop", "publish"
    cln,      \* position of the clean job: "idle", "images"
    feed,     \* entries of the feed the running cycle fetched (newest first)
    idx,      \* number of the entry the loop is at (1 = oldest)
    cur,      \* details fetched for the entry being processed
    nextMsg,  \* next message id the messaging API will hand out
    calls,    \* requests issued by the last step, in order
    last      \* branch the last step took

vars == <<store, images, main, chk, cln, feed, idx, cur, nextMsg, calls, last>>

---------------------------------------------------------------------------
(* Bounds of the model *)

MaxFeed == 2
MaxRows == 203
MaxTitle == 3
MaxSeg == 3

---------------------------------------------------------------------------
(* Values *)

None == <<>>
Some(x) == <<x>>

Lower ==
    {"a", "b", "c", "d", "e", "f", "g", "h", "i", "j", "k", "l", "m",
     "n", "o", "p", "q", "r", "s", "t", "u", "v", "w", "x", "y", "z"}

SegCronaca == <<"c", "r", "o", "n", "a", "c", "a">>
SegRicerca == <<"r", "i", "c", "e", "r", "c", "a", "-", "e", "-", "u", "n", "i">>
SegBlog == <<"b", "l", "o", "g">>
SegNecrologi == <<"n", "e", "c", "r", "o", "l", "o", "g", "i">>
SegVideo == <<"v", "i", "d", "e", "o">>
SegDigits == <<"2", "0">>

\* A link is the site prefix, a first path segment and the rest of the path.
LinkA == [seg |-> SegCronaca, rest |-> "x"]
LinkB == [seg |-> SegRicerca, rest |-> "y"]
LinkBlog == [seg |-> SegBlog, rest |-> "z"]
LinkDigits == [seg |-> SegDigits, rest |-> "w"]

TitleAB == <<"a", "b">>
TitlePadded == <<" ", "a">>

\* the feed entries of the model: two articles, an excluded category and a
\* link the pattern does not match
Entries ==
    { [title |-> TitleAB, link |-> LinkA, published |-> 100],
      [title |-> TitlePadded, link |-> LinkB, published |-> 50],
      [title |-> TitleAB, link |-> LinkBlog, published |-> 100],
      [title |-> TitleAB, link |-> LinkDigits, published |-> 100] }

PostIds == {42}

ImageUrls == {"u"}

RECURSIVE SeqsUpTo(_, _)
SeqsUpTo(S, n) ==
    IF n = 0 THEN {<<>>}
    ELSE LET shorter == SeqsUpTo(S, n - 1)
         IN  shorter \cup {Append(s, x) : s \in {t \in shorter : Len(t) = n - 1}, x \in S}

Feeds == SeqsUpTo(Entries, MaxFeed)

---------------------------------------------------------------------------
(* Article table *)

NextId(s) == IF s = <<>> THEN 1 ELSE s[Len(s)].id + 1

\* mutation: the row is stored without the message id
InsertUnpublished(s, post_id, title, link, published, message_id) ==
    Append(s, [id |-> NextId(s), post_id |-> post_id, title |-> title,
               link |-> link, published |-> published,
               telegram_message_id |-> None])

\* Article.create / article.save() of a new row
Insert(s, post_id, title, link, published, message_id) ==
    Append(s, [id |-> NextId(s), post_id |-> post_id, title |-> title,
               link |-> link, published |-> published,
               telegram_message_id |-> message_id])

\* mutation: the lookup by link only sees rows that were published
GetByLinkPublished(s, link) ==
    LET hits == {i \in 1..Len(s) : s[i].link = link /\ s[i].telegram_message_id # None}
    IN  IF hits = {} THEN None
        ELSE Some(CHOOSE i \in hits : \A j \in hits : i <= j)

\* Article.get_or_none(link=...): the first matching row, or None
GetByLink(s, link) ==
    LET hits == {i \in 1..Len(s) : s[i].link = link}
    IN  IF hits = {} THEN None
        ELSE Some(CHOOSE i \in hits : \A j \in hits : i <= j)

\* mutation: the lookup by post id only sees rows stored by the bootstrap
GetByPostIdUnpublished(s, pid) ==
    LET hits == {i \in 1..Len(s) : s[i].post_id = Some(pid) /\ s[i].telegram_message_id = None}
    IN  IF hits = {} THEN None
        ELSE Some(CHOOSE i \in hits : \A j \in hits : i <= j)

\* mutation: the scraped post id (text) never equals a stored one (a number)
GetByPostIdText(s, pid) == None

\* Article.get_or_none(post_id=...)
GetByPostId(s, pid) ==
    LET hits == {i \in 1..Len(s) : s[i].post_id = Some(pid)}
    IN  IF hits = {} THEN None
        ELSE Some(CHOOSE i \in hits : \A j \in hits : i <= j)

\* mutation: only the title of the row is written
UpdateTitleOnly(s, i, title, link) == [s EXCEPT ![i].title = title]

\* lines 139-141: article.title, article.link = ...; article.save()
Update(s, i, title, link) == [s EXCEPT ![i].title = title, ![i].link = link]

\* first_run: one row per feed entry, oldest (last in the feed) first
RECURSIVE FirstRunFrom(_, _, _)
FirstRunFrom(s, f, i) ==
    IF i = 0 THEN s
    ELSE FirstRunFrom(Insert(s, None, f[i].title, f[i].link, f[i].published, None),
                      f, i - 1)

\* mutation: the newest feed entry is left out
first_run_but_newest(s, f) == FirstRunFrom(s, SubSeq(f, 2, Len(f)), Len(f) - (IF f = <<>> THEN 0 ELSE 1))

first_run(s, f) == FirstRunFrom(s, f, Len(f))

\* mutation: the rows kept are the n most recently published ones
PruneByPublished(s, n) ==
    LET keep(r) == Cardinality({i \in 1..Len(s) : s[i].published > r.published}) < n
    IN  SelectSeq(s, keep)

\* mutation: the delete takes the rows with the n largest ids, not the others
PruneLast(s, n) ==
    LET ids == {s[i].id : i \in 1..Len(s)}
        kept == {a \in ids : Cardinality({b \in ids : b > a}) >= n}
        keep(r) == r.id \in kept
    IN  SelectSeq(s, keep)

\* the delete of clean(): keep the rows with the n largest ids
Prune(s, n) ==
    LET ids == {s[i].id : i \in 1..Len(s)}
        kept == {a \in ids : Cardinality({b \in ids : b > a}) < n}
        keep(r) == r.id \in kept
    IN  SelectSeq(s, keep)

KEEP_LAST == 200

---------------------------------------------------------------------------
(* Text helpers *)

Whitespace == {" "}

RECURSIVE LStrip(_)
LStrip(t) == IF t # <<>> /\ Head(t) \in Whitespace THEN LStrip(Tail(t)) ELSE t

RECURSIVE RStrip(_)
RStrip(t) ==
    IF t # <<>> /\ t[Len(t)] \in Whitespace THEN RStrip(SubSeq(t, 1, Len(t) - 1)) ELSE t

\* str.strip()
Strip(t) == RStrip(LStrip(t))

\* str.split(sep): the pieces between separators, empty pieces included
RECURSIVE SplitFrom(_, _, _, _)
SplitFrom(t, sep, i, piece) ==
    IF i > Len(t) THEN <<piece>>
    ELSE IF t[i] = sep THEN <<piece>> \o SplitFrom(t, sep, i + 1, <<>>)
    ELSE SplitFrom(t, sep, i + 1, Append(piece, t[i]))

Split(t, sep) == SplitFrom(t, sep, 1, <<>>)

\* re.match(r'https://www\.ildolomiti\.it/([a-z-]+)/', link): group 1 or None
LinkTag(link) ==
    IF link.seg # <<>> /\ \A i \in 1..Len(link.seg) : link.seg[i] \in Lower \cup {"-"}
    THEN Some(link.seg)
    ELSE None

\* mutation: only the video category is excluded
ExcludedVideoOnly(tag) == tag = Some(SegVideo)

\* line 107
Excluded(tag) == tag = Some(SegBlog) \/ tag = Some(SegNecrologi) \/ tag = Some(SegVideo)

\* the path-derived hashtags of a matched first segment
PathTags(seg) ==
    LET long(t) == Len(t) > 1
    IN  IF \E i \in 1..Len(seg) : seg[i] = "-"
        THEN SelectSeq(Split(seg, "-"), long)
        ELSE <<seg>>

TagBelluno == <<"b", "e", "l", "l", "u", "n", "o">>

Fallback == <<"fallback.jpg">>

\* file name of a downloaded image: 'images/' + md5(url)
ImageFile(url) == <<"images", url>>

---------------------------------------------------------------------------
(* difflib.ndiff on two strings: every character is a line.  Positions are *)
(* counted from 0 and ranges exclude their upper end, as in the library.   *)
(* Junk and the autojunk heuristic (texts of 200 characters or more) play  *)
(* no part.                                                                *)

Min(x, y) == IF x < y THEN x ELSE y

\* text[lo:hi]
Slice(text, lo, hi) == SubSeq(text, Min(lo, Len(text)) + 1, Min(hi, Len(text)))

RECURSIVE RunLength(_, _, _, _, _, _)
RunLength(a, b, i, j, ahi, bhi) ==
    IF i < ahi /\ j < bhi /\ a[i + 1] = b[j + 1]
    THEN 1 + RunLength(a, b, i + 1, j + 1, ahi, bhi)
    ELSE 0

\* SequenceMatcher.find_longest_match: the longest block common to
\* a[alo:ahi] and b[blo:bhi]; of those the one starting earliest in a, and
\* of those the one starting earliest in b
find_longest_match(a, b, alo, ahi, blo, bhi) ==
    LET starts == {p \in (alo..(ahi - 1)) \X (blo..(bhi - 1)) : a[p[1] + 1] = b[p[2] + 1]}
        size(p) == RunLength(a, b, p[1], p[2], ahi, bhi)
        longest == {p \in starts : \A q \in starts : size(q) <= size(p)}
        first == {p \in longest : \A q \in longest : p[1] <= q[1]}
        best == CHOOSE p \in first : \A q \in first : p[2] <= q[2]
    IN  IF starts = {} THEN <<alo, blo, 0>> ELSE <<best[1], best[2], size(best)>>

RECURSIVE MatchingBlocks(_, _, _, _, _, _)
MatchingBlocks(a, b, alo, ahi, blo, bhi) ==
    LET x == find_longest_match(a, b, alo, ahi, blo, bhi)
        i == x[1]
        j == x[2]
        k == x[3]
    IN  IF k = 0 THEN <<>>
        ELSE (IF alo < i /\ blo < j THEN MatchingBlocks(a, b, alo, i, blo, j) ELSE <<>>)
             \o <<x>>
             \o (IF i + k < ahi /\ j + k < bhi
                 THEN MatchingBlocks(a, b, i + k, ahi, j + k, bhi)
                 ELSE <<>>)

\* adjacent blocks become one
RECURSIVE Collapse(_, _, _)
Collapse(blocks, n, x) ==
    IF n > Len(blocks) THEN (IF x[3] # 0 THEN <<x>> ELSE <<>>)
    ELSE LET y == blocks[n]
         IN  IF x[1] + x[3] = y[1] /\ x[2] + x[3] = y[2]
             THEN Collapse(blocks, n + 1, <<x[1], x[2], x[3] + y[3]>>)
             ELSE (IF x[3] # 0 THEN <<x>> ELSE <<>>) \o Collapse(blocks, n + 1, y)

\* SequenceMatcher.get_matching_blocks, with its closing sentinel
get_matching_blocks(a, b) ==
    Collapse(MatchingBlocks(a, b, 0, Len(a), 0, Len(b)), 1, <<0, 0, 0>>)
    \o << <<Len(a), Len(b), 0>> >>

\* SequenceMatcher.get_opcodes
RECURSIVE OpcodesFrom(_, _, _, _)
OpcodesFrom(blocks, n, i, j) ==
    IF n > Len(blocks) THEN <<>>
    ELSE LET ai == blocks[n][1]
             bj == blocks[n][2]
             size == blocks[n][3]
             tag == IF i < ai /\ j < bj THEN "replace"
                    ELSE IF i < ai THEN "delete"
                    ELSE IF j < bj THEN "insert"
                    ELSE ""
         IN  (IF tag # "" THEN <<[tag |-> tag, alo |-> i, ahi |-> ai, blo |-> j, bhi |-> bj]>>
              ELSE <<>>)
             \o (IF size # 0
                 THEN <<[tag |-> "equal", alo |-> ai, ahi |-> ai + size,
                         blo |-> bj, bhi |-> bj + size]>>
                 ELSE <<>>)
             \o OpcodesFrom(blocks, n + 1, ai + size, bj + size)

get_opcodes(a, b) == OpcodesFrom(get_matching_blocks(a, b), 1, 0, 0)

\* Differ._dump: one output line per element of x[lo:hi]
Dump(tag, x, lo, hi) == [n \in 1..(hi - lo) |-> [tag |-> tag, ch |-> x[lo + n]]]

\* Differ._plain_replace: the shorter block first
PlainReplace(a, alo, ahi, b, blo, bhi) ==
    IF bhi - blo < ahi - alo
    THEN Dump("+", b, blo, bhi) \o Dump("-", a, alo, ahi)
    ELSE Dump("-", a, alo, ahi) \o Dump("+", b, blo, bhi)

\* Differ._fancy_replace and _fancy_helper.  Two different one-character
\* lines are never "close", so the only synch point is the first identical
\* pair, searched b first.
RECURSIVE FancyReplace(_, _, _, _, _, _)
RECURSIVE FancyHelper(_, _, _, _, _, _)
FancyReplace(a, alo, ahi, b, blo, bhi) ==
    LET eq == {p \in (blo..(bhi - 1)) \X (alo..(ahi - 1)) : b[p[1] + 1] = a[p[2] + 1]}
        firstj == {p \in eq : \A q \in eq : p[1] <= q[1]}
        e == CHOOSE p \in firstj : \A q \in firstj : p[2] <= q[2]
    IN  IF eq = {} THEN PlainReplace(a, alo, ahi, b, blo, bhi)
        ELSE FancyHelper(a, alo, e[2], b, blo, e[1])
             \o <<[tag |-> " ", ch |-> a[e[2] + 1]]>>
             \o FancyHelper(a, e[2] + 1, ahi, b, e[1] + 1, bhi)

FancyHelper(a, alo, ahi, b, blo, bhi) ==
    IF alo < ahi
    THEN (IF blo < bhi THEN FancyReplace(a, alo, ahi, b, blo, bhi)
          ELSE Dump("-", a, alo, ahi))
    ELSE IF blo < bhi THEN Dump("+", b, blo, bhi)
    ELSE <<>>

\* Differ.compare
RECURSIVE CompareFrom(_, _, _, _)
CompareFrom(a, b, ops, n) ==
    IF n > Len(ops) THEN <<>>
    ELSE LET o == ops[n]
             g == IF o.tag = "replace" THEN FancyReplace(a, o.alo, o.ahi, b, o.blo, o.bhi)
                  ELSE IF o.tag = "delete" THEN Dump("-", a, o.alo, o.ahi)
                  ELSE IF o.tag = "insert" THEN Dump("+", b, o.blo, o.bhi)
                  ELSE Dump(" ", a, o.alo, o.ahi)
         IN  g \o CompareFrom(a, b, ops, n + 1)

ndiff(a, b) == CompareFrom(a, b, get_opcodes(a, b), 1)

---------------------------------------------------------------------------
(* The title diff of the audit message *)

\* lines 318-324: positions in first of the lines ndiff marks '-'
RECURSIVE RemovedFrom(_, _, _)
RemovedFrom(diff, i, offset) ==
    IF i >= Len(diff) THEN <<>>
    ELSE LET s == diff[i + 1]
         IN  IF s.tag = " " THEN RemovedFrom(diff, i + 1, offset)
             ELSE IF s.tag = "+" THEN RemovedFrom(diff, i + 1, offset - 1)
             ELSE IF s.tag = "-" THEN <<i + offset>> \o RemovedFrom(diff, i + 1, offset)
             ELSE RemovedFrom(diff, i + 1, offset)

\* lines 326-338: runs of consecutive positions
RECURSIVE GroupsFrom(_, _, _)
GroupsFrom(removed, i, group) ==
    IF i >= Len(removed) THEN (IF group # <<>> THEN <<group>> ELSE <<>>)
    ELSE IF i = 0 THEN GroupsFrom(removed, i + 1, Append(group, removed[i + 1]))
    ELSE IF removed[i + 1] - removed[i] = 1
         THEN GroupsFrom(removed, i + 1, Append(group, removed[i + 1]))
    ELSE <<group>> \o GroupsFrom(removed, i + 1, <<removed[i + 1]>>)

get_diff_removals(first, second) ==
    GroupsFrom(RemovedFrom(ndiff(first, second), 0, 0), 0, <<>>)

OpenMark == <<"<", "b", ">", "<", "u", ">">>

CloseMark == <<"<", "/", "u", ">", "<", "/", "b", ">">>

\* len('<u></u><b></b>')
MarkLen == Len(<<"<", "u", ">", "<", "/", "u", ">", "<", "b", ">", "<", "/", "b", ">">>)

\* mutation: the slice after the run starts one character late
WrapSkipping(text, start, end) ==
    Slice(text, 0, start) \o OpenMark \o Slice(text, start, end) \o CloseMark
    \o Slice(text, end + 1, Len(text))

\* lines 299 and 306: text[:start] + '<b><u>' + text[start:end] + '</u></b>' + text[end:]
Wrap(text, start, end) ==
    Slice(text, 0, start) \o OpenMark \o Slice(text, start, end) \o CloseMark
    \o Slice(text, end, Len(text))

\* lines 295-300 and 302-307: wrap each run, shifted by the marks put before
RECURSIVE MarkFrom(_, _, _, _)
MarkFrom(text, groups, n, offset) ==
    IF n > Len(groups) THEN text
    ELSE LET group == groups[n]
             start == group[1] + offset
             end == group[Len(group)] + 1 + offset
         IN  MarkFrom(Wrap(text, start, end), groups, n + 1, offset + MarkLen)

\* mutation: only the new title is marked
get_diff_new_only(old, new) ==
    <<old, MarkFrom(new, get_diff_removals(new, old), 1, 0)>>

get_diff(old, new) ==
    <<MarkFrom(old, get_diff_removals(old, new), 1, 0),
      MarkFrom(new, get_diff_removals(new, old), 1, 0)>>

\* str.replace(c, r) for a one-character c
RECURSIVE Replace(_, _, _)
Replace(t, c, r) ==
    IF t = <<>> THEN <<>>
    ELSE (IF Head(t) = c THEN r ELSE <<Head(t)>>) \o Replace(Tail(t), c, r)

telegram_escape(text) ==
    Replace(Replace(Replace(text, "&", <<"&", "a", "m", "p", ";">>),
                    "<", <<"&", "l", "t", ";">>),
            ">", <<"&", "g", "t", ";">>)

---------------------------------------------------------------------------
(* Requests *)

Call(op, arg, res) == [op |-> op, arg |-> arg, res |-> res]

\* outcome of an HTTP request: a 200 response, an error status, or an
\* exception raised by the transport (requests.RequestException)
Outcomes == {"ok", "http_error", "net_error"}

\* what fetch_article_details can return for a page that was fetched:
\* no article node (no post id, no image), or a post id with or without a
\* downloaded image; the BELLUNO marker is independent of both
PageResults ==
    {[post_id |-> None, image |-> None, belluno |-> b] : b \in BOOLEAN}
    \cup {[post_id |-> Some(p), image |-> i, belluno |-> b] :
            p \in PostIds, i \in {None} \cup {Some(u) : u \in ImageUrls}, b \in BOOLEAN}

---------------------------------------------------------------------------
(* State after the tables and the images directory were created *)

\* the table file outlives the process: a first start finds it empty, a
\* restart finds the rows of an earlier run
PersistedStores == {<<>>} \cup {first_run(<<>>, <<e>>) : e \in Entries}

Init ==
    /\ store \in PersistedStores
    /\ images = {}
    /\ main = "clean"
    /\ chk = "idle"
    /\ cln = "idle"
    /\ feed = <<>>
    /\ idx = 0
    /\ cur = None
    /\ nextMsg = 1
    /\ calls = <<>>
    /\ last = "init"

---------------------------------------------------------------------------
(* clean(): first the table, then the images directory.  It runs in the    *)
(* main thread at startup and as a scheduler job afterwards.               *)

CleanPrune ==
    /\ cln = "idle"
    /\ main \in {"clean", "sched"}
    /\ store' = Prune(store, KEEP_LAST)
    /\ cln' = "images"
    /\ calls' = <<>>
    /\ last' = "prune"
    /\ UNCHANGED <<images, main, chk, feed, idx, cur, nextMsg>>

CleanImages ==
    /\ cln = "images"
    /\ images' = {}
    /\ cln' = "idle"
    /\ main' = IF main = "clean" THEN "check" ELSE main
    /\ calls' = <<>>
    /\ last' = "clean_images"
    /\ UNCHANGED <<store, chk, feed, idx, cur, nextMsg>>

---------------------------------------------------------------------------
(* check() *)

\* check() returns: at startup the main thread goes on to start the scheduler
Return ==
    /\ chk' = "idle"
    /\ feed' = <<>>
    /\ idx' = 0
    /\ cur' = None
    /\ main' = IF main = "check" THEN "sched" ELSE main

\* an exception leaves check(): at startup it ends the process, in a
\* scheduler job the executor logs it and the scheduler goes on
Raise ==
    /\ chk' = "idle"
    /\ feed' = <<>>
    /\ idx' = 0
    /\ cur' = None
    /\ main' = IF main = "check" THEN "dead" ELSE main

\* the inputs a step reads: only those the branch it takes looks at vary
FeedInputs(outcome, bozo) == IF outcome = "ok" /\ ~bozo THEN Feeds ELSE {<<>>}

BozoInputs(outcome) == IF outcome = "ok" THEN BOOLEAN ELSE {FALSE}

\* lines 58-80: fetch and parse the feed, bootstrap an empty table
CheckStart(outcome, bozo, f) ==
    /\ chk = "idle"
    /\ main \in {"check", "sched"}
    /\ calls' = <<Call("get_feed", None, IF outcome = "ok" /\ ~bozo THEN Some(f) ELSE None)>>
    /\ UNCHANGED <<images, cln, nextMsg>>
    /\ IF outcome = "net_error"
       THEN /\ Raise
            /\ last' = "feed_exception"
            /\ UNCHANGED store
       ELSE IF outcome = "http_error"
       THEN /\ Return
            /\ last' = "feed_status"
            /\ UNCHANGED store
       ELSE IF bozo
       THEN /\ Return
            /\ last' = "feed_bozo"
            /\ UNCHANGED store
       ELSE IF Len(store) = 0
       THEN /\ store' = first_run(store, f)
            /\ Return
            /\ last' = "first_run"
       ELSE /\ chk' = "loop"
            /\ feed' = f
            /\ idx' = 1
            /\ last' = "loop"
            /\ UNCHANGED <<store, cur, main>>

\* the entry the loop is at: the feed is walked in reverse
Entry == feed[Len(feed) + 1 - idx]

\* the loop is at an entry whose page it will request
FetchesPage ==
    /\ chk = "loop"
    /\ idx <= Len(feed)
    /\ GetByLink(store, Entry.link) = None
    /\ LinkTag(Entry.link) # None
    /\ ~Excluded(LinkTag(Entry.link))

PageOutcomes == IF FetchesPage THEN Outcomes ELSE {"ok"}

PageInputs(outcome) ==
    IF FetchesPage /\ outcome = "ok" THEN PageResults
    ELSE {[post_id |-> None, image |-> None, belluno |-> FALSE]}

ImageOutcomes(page) == IF page.image # None THEN Outcomes ELSE {"ok"}

\* lines 82-85 and 104-125: look the entry up by link, derive its tags and
\* fetch its page
CheckEntry(outcome, page, img) ==
    /\ chk = "loop"
    /\ idx <= Len(feed)
    /\ outcome \in PageOutcomes
    /\ UNCHANGED <<store, cln, nextMsg>>
    /\ LET entry == Entry
           tag == LinkTag(entry.link)
           next == /\ idx' = idx + 1
                   /\ UNCHANGED <<chk, feed, cur, main, images>>
       IN  IF GetByLink(store, entry.link) # None
           THEN /\ next
                /\ calls' = <<>>
                /\ last' = "seen"
           ELSE IF Excluded(tag)
           THEN /\ next
                /\ calls' = <<>>
                /\ last' = "excluded"
           ELSE IF tag = None
           THEN /\ Raise
                /\ calls' = <<>>
                /\ last' = "tag_exception"
                /\ UNCHANGED images
           ELSE IF outcome # "ok"
           THEN /\ Raise
                /\ calls' = <<Call("get_page", entry.link, outcome)>>
                /\ last' = "page_exception"
                /\ UNCHANGED images
           ELSE LET got == page.image # None /\ img = "ok"
                    file == ImageFile(page.image[1])
                    message == [title |-> Strip(entry.title),
                                link |-> entry.link,
                                tags |-> PathTags(tag[1])
                                         \o (IF page.belluno THEN <<TagBelluno>> ELSE <<>>),
                                image |-> IF got THEN file ELSE Fallback]
                IN  /\ calls' = <<Call("get_page", entry.link, "ok")>>
                                \o (IF page.image # None
                                    THEN <<Call("get_image", page.image[1], img)>>
                                    ELSE <<>>)
                    /\ images' = IF got THEN images \cup {file} ELSE images
                    /\ cur' = Some([post_id |-> page.post_id, message |-> message])
                    /\ chk' = "publish"
                    /\ last' = "fetched"
                    /\ UNCHANGED <<feed, idx, main>>

\* mutation: an error status of sendPhoto is not raised
SendRaisesTransportOnly(outcome) == outcome = "net_error"

\* mutation: an error status of editMessageCaption is raised like one of sendPhoto
EditRaisesAnyError(outcome) == outcome # "ok"

\* mutation: a transport error of editMessageCaption is swallowed too
EditNeverRaises(outcome) == FALSE

\* send_message, lines 255-263: posting raises on an error status as on a
\* transport error; editing logs an error status and returns normally
SendRaises(outcome) == outcome # "ok"

EditRaises(outcome) == outcome = "net_error"

\* the audit message of send_log; its response is ignored and every
\* exception is swallowed
send_log(article, entry) ==
    Call("sendMessage",
         [text |-> get_diff(telegram_escape(article.title), telegram_escape(entry.title)),
          old_title |-> article.title, new_title |-> entry.title,
          old_link |-> article.link, new_link |-> entry.link,
          message_id |-> article.telegram_message_id],
         None)

\* lines 127-156: edit the message of the row with the same post id, or
\* send a new message and insert a row
CheckPublish(outcome) ==
    /\ chk = "publish"
    /\ UNCHANGED <<images, cln>>
    /\ LET entry == Entry
           d == cur[1]
           m == d.message
           hit == IF d.post_id # None THEN GetByPostId(store, d.post_id[1]) ELSE None
           next == /\ idx' = idx + 1
                   /\ chk' = "loop"
                   /\ cur' = None
                   /\ UNCHANGED <<feed, main>>
           photo == Call("sendPhoto", m, IF outcome = "ok" THEN Some(nextMsg) ELSE None)
           sent == ~SendRaises(outcome)
           failed == SendRaises(outcome)
       IN  IF hit # None
           THEN LET i == hit[1]
                    article == store[i]
                    update == Update(store, i, m.title, m.link)
                IN  IF article.telegram_message_id # None
                    THEN \* editMessageCaption: an error status is logged and ignored
                         LET edit == Call("editMessageCaption",
                                          [message_id |-> article.telegram_message_id[1],
                                           caption |-> m],
                                          outcome)
                         IN  IF EditRaises(outcome)
                             THEN /\ next
                                  /\ calls' = <<edit>>
                                  /\ last' = "edit_exception"
                                  /\ UNCHANGED <<store, nextMsg>>
                             ELSE /\ next
                                  /\ calls' = <<edit, send_log(article, entry)>>
                                  /\ store' = update
                                  /\ last' = IF outcome = "ok" THEN "edited" ELSE "edit_ignored"
                                  /\ UNCHANGED nextMsg
                    ELSE \* no message id: send_message posts a new photo
                         IF m.image \notin images \cup {Fallback}
                         THEN /\ Raise
                              /\ calls' = <<>>
                              /\ last' = "file_exception"
                              /\ UNCHANGED <<store, nextMsg>>
                         ELSE \/ /\ sent
                                 /\ next
                                 /\ calls' = <<photo, send_log(article, entry)>>
                                 /\ store' = update
                                 /\ nextMsg' = nextMsg + 1
                                 /\ last' = "edited_by_send"
                              \/ /\ failed
                                 /\ next
                                 /\ calls' = <<photo>>
                                 /\ last' = "send_exception"
                                 /\ UNCHANGED <<store, nextMsg>>
           ELSE IF m.image \notin images \cup {Fallback}
                THEN /\ Raise
                     /\ calls' = <<>>
                     /\ last' = "file_exception"
                     /\ UNCHANGED <<store, nextMsg>>
                ELSE \/ /\ sent
                        /\ next
                        /\ calls' = <<photo>>
                        /\ store' = Insert(store, d.post_id, m.title, m.link,
                                           entry.published, Some(nextMsg))
                        /\ nextMsg' = nextMsg + 1
                        /\ last' = "new"
                     \/ /\ failed
                        /\ next
                        /\ calls' = <<photo>>
                        /\ last' = "send_exception"
                        /\ UNCHANGED <<store, nextMsg>>

\* line 87: every entry was examined
CheckDone ==
    /\ chk = "loop"
    /\ idx > Len(feed)
    /\ Return
    /\ calls' = <<>>
    /\ last' = "done"
    /\ UNCHANGED <<store, images, cln, nextMsg>>

---------------------------------------------------------------------------

\* one turn of the loop of check(), for every answer of the site
ExamineEntry ==
    \E outcome \in Outcomes : \E page \in PageInputs(outcome) :
       \E img \in ImageOutcomes(page) : CheckEntry(outcome, page, img)

Next ==
    \/ CleanPrune
    \/ CleanImages
    \/ \E outcome \in Outcomes : \E bozo \in BozoInputs(outcome) :
          \E f \in FeedInputs(outcome, bozo) : CheckStart(outcome, bozo, f)
    \/ ExamineEntry
    \/ \E outcome \in Outcomes : CheckPublish(outcome)
    \/ CheckDone

Spec == Init /\ [][Next]_vars

---------------------------------------------------------------------------
(* clean() on its own, started on tables of every size around KEEP_LAST:   *)
(* rows of published articles with consecutive ids, whose publication      *)
(* times rise or fall with the id.                                         *)

Table(m, first, rising) ==
    [i \in 1..m |->
        [id |-> first + i,
         post_id |-> Some(first + i),
         title |-> TitleAB,
         link |-> [seg |-> SegCronaca, rest |-> ToString(first + i)],
         published |-> IF rising THEN 1000 + i ELSE 1000 - i,
         telegram_message_id |-> Some(first + i)]]

InitPrune ==
    /\ store \in {Table(m, first, rising) :
                    m \in 0..MaxRows, first \in {0, 57}, rising \in BOOLEAN}
    /\ images \in {{}, {ImageFile(u) : u \in ImageUrls}}
    /\ main = "clean"
    /\ chk = "idle"
    /\ cln = "idle"
    /\ feed = <<>>
    /\ idx = 0
    /\ cur = None
    /\ nextMsg = 1
    /\ calls = <<>>
    /\ last = "init"

NextPrune == CleanPrune \/ CleanImages

SpecPrune == InitPrune /\ [][NextPrune]_vars

---------------------------------------------------------------------------
(* The scheduler at work on a table that is not empty: a table of one row  *)
(* and tables around KEEP_LAST rows, so that a run of clean() between or   *)
(* within the poll cycles does delete rows.                                *)

InitSteady ==
    \E m \in {1, KEEP_LAST + 1} :
       /\ store = Table(m, 0, TRUE)
       /\ images = {}
       /\ main = "sched"
       /\ chk = "idle"
       /\ cln = "idle"
       /\ feed = <<>>
       /\ idx = 0
       /\ cur = None
       /\ nextMsg = m + 1
       /\ calls = <<>>
       /\ last = "init"

SpecSteady == InitSteady /\ [][Next]_vars

---------------------------------------------------------------------------
(* The scheduler at work, under fair scheduling, on a feed that stays the  *)
(* same: the cron triggers keep firing the two jobs, and a job that was    *)
(* started goes on to its next step.  The table holds a row of an earlier  *)
(* run, of a link that is not in the feed.                                 *)

\* a feed of two articles: the one of LinkB is the older one, so the loop
\* comes to it first
StayingFeed ==
    <<[title |-> TitleAB, link |-> LinkA, published |-> 100],
      [title |-> TitlePadded, link |-> LinkB, published |-> 50]>>

StayStart == CheckStart("ok", FALSE, StayingFeed)

\* a step of the check job, the answers to its publication request one by one
CheckStep ==
    \/ StayStart
    \/ ExamineEntry
    \/ CheckPublish("net_error")
    \/ CheckPublish("http_error")
    \/ CheckPublish("ok")
    \/ CheckDone

CleanStep == CleanPrune \/ CleanImages

InitFair ==
    /\ store \in {first_run(<<>>, <<e>>) : e \in {d \in Entries : d.link \notin {LinkA, LinkB}}}
    /\ images = {}
    /\ main = "sched"
    /\ chk = "idle"
    /\ cln = "idle"
    /\ feed = <<>>
    /\ idx = 0
    /\ cur = None
    /\ nextMsg = 1
    /\ calls = <<>>
    /\ last = "init"

NextFair == CheckStep \/ CleanStep

SpecFair == InitFair /\ [][NextFair]_vars /\ WF_vars(CheckStep) /\ WF_vars(CleanStep)

---------------------------------------------------------------------------
(* The publication of one EDITED entry, for every pair of titles: the      *)
(* check job has fetched the page of an entry whose post id is the one of  *)
(* a published row with another link and title.                            *)

DiffChars == {"a", "b", "<"}

DiffTitles == SeqsUpTo(DiffChars, MaxTitle)

\* the check job is about to publish an entry titled new whose page carries
\* the post id p of a published row titled old
AtEdited(old, new, p) ==
    /\ store = <<[id |-> 1, post_id |-> Some(p), title |-> old, link |-> LinkA,
                  published |-> 100, telegram_message_id |-> Some(1)]>>
    /\ feed = <<[title |-> new, link |-> LinkB, published |-> 50]>>
    /\ cur = Some([post_id |-> Some(p),
                   message |-> [title |-> Strip(new), link |-> LinkB,
                                tags |-> PathTags(SegRicerca), image |-> Fallback]])
    /\ calls = <<Call("get_page", LinkB, "ok")>>
    /\ images = {}
    /\ main = "sched"
    /\ chk = "publish"
    /\ cln = "idle"
    /\ idx = 1
    /\ nextMsg = 2
    /\ last = "fetched"

InitDiff ==
    \E old \in DiffTitles, new \in DiffTitles, p \in PostIds : AtEdited(old, new, p)

NextDiff == (\E outcome \in Outcomes : CheckPublish(outcome)) \/ CheckDone

SpecDiff == InitDiff /\ [][NextDiff]_vars

---------------------------------------------------------------------------
(* The same publication for titles of a real article: a title, the title   *)
(* with a word put before it, and their variants in case and padding.      *)

TitleFrana ==
    <<"F", "r", "a", "n", "a", " ", "a", " ", "C", "o", "r", "t", "i", "n", "a">>

TitleGrandeFrana ==
    <<"G", "r", "a", "n", "d", "e", " ", "f", "r", "a", "n", "a", " ", "a", " ",
      "C", "o", "r", "t", "i", "n", "a">>

ExampleTitles ==
    {TitleFrana,
     TitleGrandeFrana,
     <<"f">> \o Tail(TitleFrana),
     SubSeq(TitleGrandeFrana, 1, 7) \o TitleFrana,
     <<" ">> \o TitleFrana,
     TitleFrana \o <<" ">>}

InitExample ==
    \E old \in ExampleTitles, new \in ExampleTitles, p \in PostIds : AtEdited(old, new, p)

SpecExample == InitExample /\ [][NextDiff]_vars

---------------------------------------------------------------------------
(* One turn of the loop for links of every shape: the check job is at the  *)
(* only entry of a feed, its link is not in the table, and its first path  *)
(* segment is any short text over a letter, a second letter and '-', a     *)
(* longer category, an excluded category or a segment the pattern of       *)
(* process_new_article does not match.                                     *)

TagSegs == SeqsUpTo({"a", "b", "-"}, MaxSeg) \cup {SegRicerca, SegBlog, SegDigits}

InitTags ==
    \E seg \in TagSegs :
       /\ store \in PersistedStores \ {<<>>}
       /\ feed = <<[title |-> TitleAB, link |-> [seg |-> seg, rest |-> "t"], published |-> 200]>>
       /\ images = {}
       /\ main = "sched"
       /\ chk = "loop"
       /\ cln = "idle"
       /\ idx = 1
       /\ cur = None
       /\ nextMsg = 1
       /\ calls = <<Call("get_feed", None, Some(feed))>>
       /\ last = "loop"

NextTags == ExamineEntry \/ (\E outcome \in Outcomes : CheckPublish(outcome)) \/ CheckDone

SpecTags == InitTags /\ [][NextTags]_vars

---------------------------------------------------------------------------
(* Vocabulary of the properties *)

HasCall(cs, op) == \E i \in 1..Len(cs) : cs[i].op = op

Published(cs) == HasCall(cs, "sendPhoto") \/ HasCall(cs, "editMessageCaption")

\* the check job examines the entry it is at
EntryStep == chk = "loop" /\ idx <= Len(feed) /\ <<chk, idx>>' # <<chk, idx>>

\* the check job publishes the entry whose page it fetched
PublishStep == chk = "publish" /\ chk' # "publish"

\* rows whose post id is the one the fetched page carries
Matches == {i \in 1..Len(store) : cur[1].post_id # None /\ store[i].post_id = cur[1].post_id}

\* a cycle starts on an empty table and gets a well-formed feed
BootstrapStep ==
    /\ chk = "idle"
    /\ store = <<>>
    /\ HasCall(calls', "get_feed")
    /\ calls'[1].res # None

---------------------------------------------------------------------------
(* C1: a cycle that starts on an empty table and reads a feed of N entries *)
(* leaves exactly N rows, one per entry in reverse feed order, none with a *)
(* message id, issues no send and no edit request, and is over.            *)

C1_Bootstrap ==
    [][BootstrapStep =>
         LET f == calls'[1].res[1]
         IN  /\ Len(store') = Len(f)
             /\ \A i \in 1..Len(f) :
                   /\ store'[i].link = f[Len(f) + 1 - i].link
                   /\ store'[i].title = f[Len(f) + 1 - i].title
                   /\ store'[i].telegram_message_id = None
             /\ ~Published(calls')
             /\ nextMsg' = nextMsg
             /\ chk' = "idle"]_vars

C1_Witness ==
    /\ last = "first_run"
    /\ Len(store) = MaxFeed
    /\ Len(calls[1].res[1]) = MaxFeed
    /\ \A i \in 1..Len(store) : store[i].telegram_message_id = None

(* C2: examining an entry whose link is the link of a stored row issues no *)
(* request at all and changes neither the table, the images nor the        *)
(* message counter; the loop moves on to the next entry.                   *)

C2_SeenFrame ==
    [][(EntryStep /\ \E i \in 1..Len(store) : store[i].link = Entry.link) =>
         /\ calls' = <<>>
         /\ store' = store
         /\ images' = images
         /\ nextMsg' = nextMsg
         /\ chk' = "loop"
         /\ idx' = idx + 1]_vars

C2_Witness ==
    /\ last = "seen"
    /\ chk = "loop"
    /\ idx = 2
    /\ \E i \in 1..Len(store) :
          /\ store[i].link = feed[Len(feed)].link
          /\ store[i].telegram_message_id = None
          /\ ~Excluded(LinkTag(store[i].link))

(* C3: publishing an entry whose page carries the post id of a stored row  *)
(* issues an edit request for that row's message, issues no send request   *)
(* and leaves the number of rows as it was.                                *)

C3_Edited ==
    [][(PublishStep /\ Matches # {}) =>
         /\ calls' # <<>>
         /\ calls'[1].op = "editMessageCaption"
         /\ \E i \in Matches : Some(calls'[1].arg.message_id) = store[i].telegram_message_id
         /\ ~HasCall(calls', "sendPhoto")
         /\ Len(store') = Len(store)]_vars

C3_Witness ==
    /\ last = "edited"
    /\ calls[1].op = "editMessageCaption"
    /\ \E i \in 1..Len(store) :
          /\ store[i].telegram_message_id = Some(calls[1].arg.message_id)
          /\ store[i].link = calls[1].arg.caption.link
          /\ store[i].link # calls[2].arg.old_link

(* C4: when the send request of a NEW entry fails the table is unchanged   *)
(* and still holds no row with the entry's link; a publish step adds a row *)
(* only after a send request that succeeded, and that row carries the      *)
(* entry's link and the message id the request returned.                   *)

C4_NewSend ==
    [][PublishStep =>
         /\ (Matches = {} /\ HasCall(calls', "sendPhoto") /\ calls'[1].res = None) =>
               /\ store' = store
               /\ \A i \in 1..Len(store') : store'[i].link # Entry.link
         /\ Len(store') > Len(store) =>
               /\ Matches = {}
               /\ calls' # <<>>
               /\ calls'[1].op = "sendPhoto"
               /\ calls'[1].res # None
               /\ Len(store') = Len(store) + 1
               /\ SubSeq(store', 1, Len(store)) = store
               /\ store'[Len(store')].telegram_message_id = calls'[1].res
               /\ store'[Len(store')].link = Entry.link]_vars

C4_Witness ==
    /\ last = "send_exception"
    /\ calls[1].op = "sendPhoto"
    /\ calls[1].res = None
    /\ \A i \in 1..Len(store) : store[i].link # calls[1].arg.link

(* C5 as claimed: whenever the edit request of an EDITED entry fails, by a *)
(* transport error or by an error status, the table is left unchanged.     *)

C5_Claimed ==
    [][(PublishStep /\ Matches # {} /\ HasCall(calls', "editMessageCaption")
          /\ calls'[1].res # "ok") => store' = store]_vars

(* C5 as amended: a transport error of the edit request leaves the table   *)
(* unchanged, so the entry's link is still absent and its post id still    *)
(* matches; an error status is ignored and the matched row gets the        *)
(* entry's stripped title and its link, as after a successful edit.        *)

C5_EditFailure ==
    [][(PublishStep /\ Matches # {} /\ HasCall(calls', "editMessageCaption")) =>
         /\ calls'[1].res = "net_error" =>
               /\ store' = store
               /\ \A i \in 1..Len(store') : store'[i].link # Entry.link
         /\ calls'[1].res = "http_error" =>
               \E i \in Matches :
                  store' = [store EXCEPT ![i].title = Strip(Entry.title),
                                         ![i].link = Entry.link]]_vars

C5_Witness ==
    /\ last = "edit_exception"
    /\ calls[1].op = "editMessageCaption"
    /\ calls[1].res = "net_error"
    /\ \E i \in 1..Len(store) :
          /\ store[i].telegram_message_id = Some(calls[1].arg.message_id)
          /\ store[i].link # calls[1].arg.caption.link

(* C6 as claimed: a cycle that entered the loop ends only when no entry is *)
(* left to examine, whatever failed for the entries before.                *)

C6_Isolation == [][(chk # "idle" /\ chk' = "idle") => idx >= Len(feed)]_vars

(* C7 as claimed: no error ends the process.                               *)

C7_NeverDead == main # "dead"

(* C8 as claimed: an audit message is sent only after an edit request that *)
(* succeeded.                                                              *)

C8_Claimed ==
    [][(PublishStep /\ HasCall(calls', "sendMessage")) =>
         /\ calls'[1].op = "editMessageCaption"
         /\ calls'[1].res = "ok"]_vars

(* C8 as amended: an audit message is sent exactly when the edit request   *)
(* of an EDITED entry returned, with a success or with an error status,    *)
(* and then right after it; after a transport error of the edit request,   *)
(* and for an entry that is not EDITED, none is sent.                      *)

C8_AuditAfterEdit ==
    [][PublishStep =>
         /\ HasCall(calls', "sendMessage") =>
               /\ Matches # {}
               /\ Len(calls') = 2
               /\ calls'[1].op = "editMessageCaption"
               /\ calls'[1].res \in {"ok", "http_error"}
               /\ calls'[2].op = "sendMessage"
         /\ (Matches # {} /\ calls'[1].res \in {"ok", "http_error"}) =>
               HasCall(calls', "sendMessage")]_vars

C8_Witness ==
    /\ last = "edit_ignored"
    /\ Len(calls) = 2
    /\ calls[1].op = "editMessageCaption"
    /\ calls[1].res = "http_error"
    /\ calls[2].op = "sendMessage"

(* C9: the delete of clean() leaves the last min(M, 200) rows of a table   *)
(* of M rows, unchanged and in order; they are the rows with the largest   *)
(* ids, whatever their publication times.                                  *)

C9_Prune ==
    [][(cln = "idle" /\ cln' = "images") =>
         LET m == Len(store)
             k == IF m < KEEP_LAST THEN m ELSE KEEP_LAST
         IN  /\ Len(store') = k
             /\ store' = SubSeq(store, m - k + 1, m)
             /\ \A i \in 1..(m - k) : \A j \in 1..k : store[i].id < store'[j].id]_vars

C9_Witness ==
    /\ last = "prune"
    /\ Len(store) = KEEP_LAST
    /\ store[1].id = 3
    /\ store[1].published > store[2].published

\* the text without the marks get_diff puts in
RECURSIVE Unmark(_)
Unmark(text) ==
    IF text = <<>> THEN <<>>
    ELSE IF Slice(text, 0, Len(OpenMark)) = OpenMark
         THEN Unmark(Slice(text, Len(OpenMark), Len(text)))
    ELSE IF Slice(text, 0, Len(CloseMark)) = CloseMark
         THEN Unmark(Slice(text, Len(CloseMark), Len(text)))
    ELSE <<Head(text)>> \o Unmark(Tail(text))

(* C10: in every audit message, the first diff text without its marks is   *)
(* the escaped old title and the second one without its marks is the       *)
(* escaped new title.                                                      *)

C10_RoundTrip ==
    \A n \in 1..Len(calls) :
       calls[n].op = "sendMessage" =>
          /\ Unmark(calls[n].arg.text[1]) = telegram_escape(calls[n].arg.old_title)
          /\ Unmark(calls[n].arg.text[2]) = telegram_escape(calls[n].arg.new_title)

C10_Witness ==
    /\ Len(calls) = 2
    /\ calls[2].op = "sendMessage"
    /\ calls[2].arg.old_title = <<"a", "<", "a">>
    /\ Len(calls[2].arg.text[1]) = Len(telegram_escape(calls[2].arg.old_title)) + MarkLen + MarkLen
    /\ Len(calls[2].arg.text[2]) = Len(telegram_escape(calls[2].arg.new_title)) + MarkLen

\* the text with the run of characters start..end-1 (counted from 0) marked
Marked(text, start, end) ==
    Slice(text, 0, start) \o OpenMark \o Slice(text, start, end) \o CloseMark
    \o Slice(text, end, Len(text))

\* the last step sent the audit message of a change of title from old to new
Audit(old, new) ==
    /\ Len(calls) = 2
    /\ calls[2].op = "sendMessage"
    /\ calls[2].arg.old_title = old
    /\ calls[2].arg.new_title = new

(* C11 as claimed: the audit message of the change from "Frana a Cortina"  *)
(* to "Grande frana a Cortina" shows the old title without any mark and    *)
(* the new title with exactly the run "Grande " marked.                    *)

C11_Claimed ==
    Audit(TitleFrana, TitleGrandeFrana) =>
       /\ calls[2].arg.text[1] = TitleFrana
       /\ calls[2].arg.text[2] = Marked(TitleGrandeFrana, 0, 7)

(* C11 as amended: that audit message shows the old title with its first   *)
(* character "F" marked and the new title with exactly the run "Grande f"  *)
(* marked: the comparison tells "F" from "f".  When the old title starts   *)
(* with "f" it is shown without any mark and the new one with exactly the  *)
(* run "Grande " marked.                                                   *)

C11_DiffExample ==
    /\ Audit(TitleFrana, TitleGrandeFrana) =>
          /\ calls[2].arg.text[1] = Marked(TitleFrana, 0, 1)
          /\ calls[2].arg.text[2] = Marked(TitleGrandeFrana, 0, 8)
    /\ Audit(<<"f">> \o Tail(TitleFrana), TitleGrandeFrana) =>
          /\ calls[2].arg.text[1] = <<"f">> \o Tail(TitleFrana)
          /\ calls[2].arg.text[2] = Marked(TitleGrandeFrana, 0, 7)

C11_Witness ==
    /\ Audit(TitleFrana, TitleGrandeFrana)
    /\ last = "edited"
    /\ store[1].title = TitleGrandeFrana

\* the pieces of a first path segment between '-', without those of at most
\* one character
Fragments(seg) ==
    LET long(t) == Len(t) > 1
    IN  SelectSeq(Split(seg, "-"), long)

\* the check job processes an entry whose link is not in the table and
\* whose category is not excluded
ProcessStep ==
    /\ EntryStep
    /\ \A i \in 1..Len(store) : store[i].link # Entry.link
    /\ Entry.link.seg \notin {SegBlog, SegNecrologi, SegVideo}

(* C12 as claimed: processing an entry never fails before its page is      *)
(* requested, whatever its link; when the page was fetched the hashtags of *)
(* the message are the pieces of the first path segment between '-' that   *)
(* have more than one character, in order, followed at most by the region  *)
(* marker, so none of them has a single character.                         *)

C12_Claimed ==
    [][ProcessStep =>
         /\ ~(chk' = "idle" /\ calls' = <<>>)
         /\ chk' = "publish" =>
               /\ cur'[1].message.tags \in {Fragments(Entry.link.seg),
                                             Fragments(Entry.link.seg) \o <<TagBelluno>>}
               /\ \A n \in 1..Len(cur'[1].message.tags) :
                     Len(cur'[1].message.tags[n]) > 1]_vars

(* C13: examining an entry whose first path segment is blog, necrologi or  *)
(* video, in a cycle after the bootstrap, issues no request, leaves the    *)
(* table, the images and the message counter as they were and moves on to  *)
(* the next entry, in every cycle in which the entry appears.              *)

C13_Excluded ==
    [][(EntryStep /\ Entry.link.seg \in {SegBlog, SegNecrologi, SegVideo}) =>
         /\ calls' = <<>>
         /\ store' = store
         /\ images' = images
         /\ nextMsg' = nextMsg
         /\ chk' = "loop"
         /\ idx' = idx + 1]_vars

C13_Witness ==
    /\ last = "excluded"
    /\ chk = "loop"
    /\ idx = 2
    /\ feed[Len(feed)].link = LinkBlog
    /\ store # <<>>
    /\ \A i \in 1..Len(store) : store[i].link # LinkBlog

(* C14: no step of a poll cycle or of a run of clean() empties a table     *)
(* that is not empty, and a cycle that starts on such a table does not     *)
(* take the bootstrap branch: it stores no row without publishing it.      *)

C14_NoBootstrapAgain ==
    [][store # <<>> =>
         /\ store' # <<>>
         /\ \A i \in 1..Len(store') :
               store'[i].telegram_message_id = None =>
                  \E j \in 1..Len(store) : store[j].id = store'[i].id]_vars

C14_Witness ==
    /\ last = "prune"
    /\ chk = "loop"
    /\ Len(store) = KEEP_LAST
    /\ store[1].id = 3
    /\ store[KEEP_LAST].telegram_message_id = Some(KEEP_LAST + 2)

(* C15 as claimed: whenever the loop is about to look an entry up by its   *)
(* link, no two rows of the table have the same link.                      *)

C15_UniqueLinks ==
    (chk = "loop" /\ idx <= Len(feed)) =>
       \A i, j \in 1..Len(store) : store[i].link = store[j].link => i = j

(* C16 as claimed: the clean job never runs while a poll cycle is under    *)
(* way, so no poll cycle finds the image it downloaded gone when it is to  *)
(* upload it.                                                              *)

C16_NoOverlap ==
    /\ ~(chk # "idle" /\ cln # "idle")
    /\ last # "file_exception"

\* the last step made a request for the entry of this link and it failed, or
\* found the entry's image gone
FailedFor(link) ==
    \/ last = "file_exception"
    \/ /\ calls # <<>>
       /\ \/ calls[1].op = "get_page" /\ calls[1].arg = link /\ calls[1].res # "ok"
          \/ calls[1].op = "sendPhoto" /\ calls[1].arg.link = link /\ calls[1].res = None
          \/ /\ calls[1].op = "editMessageCaption"
             /\ calls[1].arg.caption.link = link
             /\ calls[1].res # "ok"

Recorded(link) ==
    \E i \in 1..Len(store) : store[i].link = link /\ store[i].telegram_message_id # None

(* C17 as claimed: under fair scheduling, when the feed stays the same     *)
(* feed of two articles, the newer article is not in the table and no      *)
(* request made for the newer article ever fails, the newer article is     *)
(* eventually in the table with a message id, whatever happens to the      *)
(* requests made for the older one.                                        *)

C17_NoStarvation == []~FailedFor(LinkA) => <>Recorded(LinkA)

(* C18: every row with a post id has a message id, and no EDITED entry is  *)
(* ever published by a send request for want of a message id to edit.      *)

C18_PostIdHasMessage ==
    /\ \A i \in 1..Len(store) :
          store[i].post_id # None => store[i].telegram_message_id # None
    /\ last # "edited_by_send"
    /\ \A n \in 1..Len(calls) : calls[n].op = "sendMessage" => calls[1].op # "sendPhoto"

C18_Witness ==
    /\ last = "new"
    /\ store[Len(store)].post_id # None
    /\ store[Len(store)].telegram_message_id = calls[1].res
    /\ \E i \in 1..Len(store) : store[i].post_id = None /\ store[i].telegram_message_id = None

(* C19: no two rows have the same post id, rows without a post id apart.   *)

C19_UniquePostIds ==
    \A i, j \in 1..Len(store) :
       (store[i].post_id # None /\ store[i].post_id = store[j].post_id) => i = j

C19_Witness ==
    /\ last = "edited"
    /\ Len(store) >= 2
    /\ \E i \in 1..Len(store) :
          /\ store[i].post_id # None
          /\ store[i].link = calls[1].arg.caption.link

(* C20: when the publication of an EDITED entry gets past its edit request *)
(* (the audit message is sent), the matched row gets the entry's stripped  *)
(* title and its link and keeps its id, post id, publication time and      *)
(* message id, and every other row is as it was.                           *)

C20_EditedFrame ==
    [][(PublishStep /\ Matches # {} /\ HasCall(calls', "sendMessage")) =>
         \E i \in Matches :
            /\ Len(store') = Len(store)
            /\ store'[i].title = RStrip(LStrip(Entry.title))
            /\ store'[i].link = Entry.link
            /\ store'[i].id = store[i].id
            /\ store'[i].post_id = store[i].post_id
            /\ store'[i].published = store[i].published
            /\ store'[i].telegram_message_id = store[i].telegram_message_id
            /\ \A j \in 1..Len(store) : j # i => store'[j] = store[j]]_vars

C20_Witness ==
    /\ last \in {"edited", "edit_ignored"}
    /\ Len(store) >= 2
    /\ calls[2].arg.new_title = TitlePadded
    /\ calls[2].arg.old_title = TitleAB
    /\ \E i \in 1..Len(store) :
          /\ store[i].title = <<"a">>
          /\ store[i].link = LinkB
          /\ store[i].telegram_message_id = calls[2].arg.message_id

=============================================================================
